---------------------------- MODULE Spec2Model ----------------------------
(***************************************************************************)
(* Model of src/src/data_structures/union_find.rs: a vector-based          *)
(* union-find with path halving and union by rank.                         *)
(*                                                                         *)
(* A UnionFind value is a record [parents, ranks]; both fields are         *)
(* functions on 0 .. n-1 (Rust's Vec<usize>, indexed from 0).  An          *)
(* operation that indexes a vector out of range panics: the operators      *)
(* below return fault |-> TRUE together with the structure as the panic    *)
(* leaves it (the writes made before the panic stay).                      *)
(***************************************************************************)
EXTENDS Integers, FiniteSets, TLC

\* Largest number of elements a structure holds in the model.
MaxLen == 3

\* The same for SpecRaw, whose caller also rewrites parent pointers.
MaxLenRaw == 2

\* Largest number of successful set_parent calls made from outside the
\* structure in one behaviour of SpecRaw.
MaxSetParent == 1

\* usize::MAX, the value saturating_add clamps at.  usize is 64 bits wide on
\* the usual targets; TLC's integers are 32 bits wide, so the model takes the
\* widest usize TLC holds.  The code only compares ranks and adds one with
\* saturation, so the width only places the saturation point.
USIZE_MAX == 2147483647

\* Rank values a caller hands to with_ranks.
RankSeeds == {0, USIZE_MAX}


VARIABLES
    parents,    \* self.parents
    ranks,      \* self.ranks
    op,         \* the last call made
    a,          \* its first argument (element, a, size), 0 when it has none
    b,          \* its second argument (b, parent), 0 when it has none
    argRanks,   \* the vector handed to with_ranks, empty for any other call
    outcome,    \* "ok": the call returned; "fault": it panicked on an index
    retId,      \* the usize the call returned (find, parent, len), else 0
    retBool,    \* the bool the call returned (union, in_same_set, is_empty)
    pre,        \* parents, ranks and blocks as they were before the call
    blocks,     \* reference partition of 0 .. len-1: a set of disjoint sets
    ctor,       \* the constructor that built the structure
    nset,       \* successful set_parent calls made from outside so far
    merged      \* union calls that returned true so far

vars == <<parents, ranks, op, a, b, argRanks, outcome, retId, retBool, pre,
          blocks, ctor, nset, merged>>

----------------------------------------------------------------------------
(* Vec helpers *)

Empty == [i \in {} |-> 0]

VecLen(v) == Cardinality(DOMAIN v)

push(v, x) == [j \in 0 .. VecLen(v) |-> IF j < VecLen(v) THEN v[j] ELSE x]

saturating_add(x, y) == IF x >= USIZE_MAX - y THEN USIZE_MAX ELSE x + y

wrapping_increment(x, y) == IF x >= USIZE_MAX - y THEN 0 ELSE x + y

----------------------------------------------------------------------------
(* The methods of UnionFind, as functions of the structure uf *)

with_size(size) ==
    [parents |-> [i \in 0 .. size - 1 |-> i],
     ranks   |-> [i \in 0 .. size - 1 |-> 0]]

with_ranks_zeroed(rs) ==
    [parents |-> [i \in 0 .. VecLen(rs) - 1 |-> i],
     ranks   |-> [i \in 0 .. VecLen(rs) - 1 |-> 0]]

with_ranks(rs) ==
    [parents |-> [i \in 0 .. VecLen(rs) - 1 |-> i],
     ranks   |-> rs]

len(uf) == VecLen(uf.parents)

is_empty(uf) == uf.parents = Empty

RECURSIVE extend_loop_no_rank(_, _, _)
extend_loop_no_rank(uf, i, end) ==
    IF i >= end THEN uf
    ELSE extend_loop_no_rank([parents |-> push(uf.parents, i),
                              ranks   |-> uf.ranks], i + 1, end)

RECURSIVE extend_loop(_, _, _)
extend_loop(uf, i, end) ==
    IF i >= end THEN uf
    ELSE extend_loop([parents |-> push(uf.parents, i),
                      ranks   |-> push(uf.ranks, 0)], i + 1, end)

RECURSIVE extend_loop_same_parent(_, _, _, _)
extend_loop_same_parent(uf, n, i, end) ==
    IF i >= end THEN uf
    ELSE extend_loop_same_parent([parents |-> push(uf.parents, n),
                                  ranks   |-> push(uf.ranks, 0)],
                                 n, i + 1, end)

extend_same_parent(uf, size) ==
    extend_loop_same_parent(uf, len(uf), len(uf), len(uf) + size)

extend(uf, size) == extend_loop(uf, len(uf), len(uf) + size)

parent_unchecked(uf, element) ==
    IF element \in DOMAIN uf.parents
    THEN [fault |-> FALSE, ret |-> uf.parents[element]]
    ELSE [fault |-> FALSE, ret |-> 0]

parent(uf, element) ==
    IF element \in DOMAIN uf.parents
    THEN [fault |-> FALSE, ret |-> uf.parents[element]]
    ELSE [fault |-> TRUE, ret |-> 0]

set_parent(uf, element, p) ==
    IF element \in DOMAIN uf.parents
    THEN [uf |-> [uf EXCEPT !.parents[element] = p], fault |-> FALSE]
    ELSE [uf |-> uf, fault |-> TRUE]

increment_rank_noop(uf, element) == uf

increment_rank_wrapping(uf, element) ==
    [uf EXCEPT !.ranks[element] = wrapping_increment(@, 1)]

increment_rank(uf, element) ==
    [uf EXCEPT !.ranks[element] = saturating_add(@, 1)]

RECURSIVE find_loop_detaches(_, _, _, _)
find_loop_detaches(uf, element, par, iters) ==
    IF element = par
    THEN [uf |-> uf, fault |-> FALSE, ret |-> element, iters |-> iters]
    ELSE LET next_parent == parent(uf, par) IN
         IF next_parent.fault
         THEN [uf |-> uf, fault |-> TRUE, ret |-> 0, iters |-> iters]
         ELSE find_loop_detaches(set_parent(uf, element, element).uf,
                                 par, next_parent.ret, iters + 1)

RECURSIVE find_loop_no_compress(_, _, _, _)
find_loop_no_compress(uf, element, par, iters) ==
    IF element = par
    THEN [uf |-> uf, fault |-> FALSE, ret |-> element, iters |-> iters]
    ELSE LET next_parent == parent(uf, par) IN
         IF next_parent.fault
         THEN [uf |-> uf, fault |-> TRUE, ret |-> 0, iters |-> iters]
         ELSE find_loop_no_compress(uf, par, next_parent.ret, iters + 1)

\* The while loop of find.  At its head par = parents[element], so element is
\* in range and the set_parent in the body cannot fault; parent(par) faults
\* when a parent pointer is out of range.
RECURSIVE find_loop(_, _, _, _)
find_loop(uf, element, par, iters) ==
    IF element = par
    THEN [uf |-> uf, fault |-> FALSE, ret |-> element, iters |-> iters]
    ELSE LET next_parent == parent(uf, par) IN
         IF next_parent.fault
         THEN [uf |-> uf, fault |-> TRUE, ret |-> 0, iters |-> iters]
         ELSE find_loop(set_parent(uf, element, next_parent.ret).uf,
                        par, next_parent.ret, iters + 1)

find_one_step(uf, element) ==
    LET p == parent(uf, element) IN
    IF p.fault
    THEN [uf |-> uf, fault |-> TRUE, ret |-> 0, iters |-> 0]
    ELSE [uf |-> uf, fault |-> FALSE, ret |-> p.ret, iters |-> 0]

\* The loop of find with its test after the body.
find_do_while(uf, element) ==
    LET p == parent(uf, element) IN
    IF p.fault
    THEN [uf |-> uf, fault |-> TRUE, ret |-> 0, iters |-> 0]
    ELSE LET next_parent == parent(uf, p.ret) IN
         IF next_parent.fault
         THEN [uf |-> uf, fault |-> TRUE, ret |-> 0, iters |-> 0]
         ELSE find_loop(set_parent(uf, element, next_parent.ret).uf,
                        p.ret, next_parent.ret, 1)

find(uf, element) ==
    LET p == parent(uf, element) IN
    IF p.fault
    THEN [uf |-> uf, fault |-> TRUE, ret |-> 0, iters |-> 0]
    ELSE find_loop(uf, element, p.ret, 0)

link_greater_swapped(uf, rep_a, rep_b) ==
    LET rank_a == uf.ranks[rep_a]
        rank_b == uf.ranks[rep_b]
    IN  IF rank_a > rank_b THEN set_parent(uf, rep_a, rep_b).uf
        ELSE IF rank_a < rank_b THEN set_parent(uf, rep_a, rep_b).uf
        ELSE increment_rank(set_parent(uf, rep_a, rep_b).uf, rep_b)

link_tie_demotes_b(uf, rep_a, rep_b) ==
    LET rank_a == uf.ranks[rep_a]
        rank_b == uf.ranks[rep_b]
    IN  IF rank_a > rank_b THEN set_parent(uf, rep_b, rep_a).uf
        ELSE IF rank_a < rank_b THEN set_parent(uf, rep_a, rep_b).uf
        ELSE increment_rank(set_parent(uf, rep_b, rep_a).uf, rep_a)

link_always_increments(uf, rep_a, rep_b) ==
    LET rank_a == uf.ranks[rep_a]
        rank_b == uf.ranks[rep_b]
    IN  IF rank_a > rank_b
        THEN increment_rank(set_parent(uf, rep_b, rep_a).uf, rep_a)
        ELSE increment_rank(set_parent(uf, rep_a, rep_b).uf, rep_b)

\* The match of union on the two ranks, once both representatives are found
\* and differ.
link(uf, rep_a, rep_b) ==
    LET rank_a == uf.ranks[rep_a]
        rank_b == uf.ranks[rep_b]
    IN  IF rank_a > rank_b THEN set_parent(uf, rep_b, rep_a).uf
        ELSE IF rank_a < rank_b THEN set_parent(uf, rep_a, rep_b).uf
        ELSE increment_rank(set_parent(uf, rep_a, rep_b).uf, rep_b)

union_links_arguments(uf, x, y) ==
    LET fa == find(uf, x) IN
    IF fa.fault THEN [uf |-> fa.uf, fault |-> TRUE, ret |-> FALSE]
    ELSE LET fb == find(fa.uf, y) IN
         IF fb.fault THEN [uf |-> fb.uf, fault |-> TRUE, ret |-> FALSE]
         ELSE IF fa.ret = fb.ret
              THEN [uf |-> fb.uf, fault |-> FALSE, ret |-> FALSE]
              ELSE [uf |-> link(fb.uf, x, y), fault |-> FALSE, ret |-> TRUE]

union_stale_rep(uf, x, y) ==
    LET fa == find(uf, x) IN
    IF fa.fault THEN [uf |-> fa.uf, fault |-> TRUE, ret |-> FALSE]
    ELSE LET pb == parent(fa.uf, y) IN
         IF pb.fault THEN [uf |-> fa.uf, fault |-> TRUE, ret |-> FALSE]
         ELSE IF fa.ret = pb.ret
              THEN [uf |-> fa.uf, fault |-> FALSE, ret |-> FALSE]
              ELSE [uf |-> link(fa.uf, fa.ret, pb.ret),
                    fault |-> FALSE, ret |-> TRUE]

union_no_same_check(uf, x, y) ==
    LET fa == find(uf, x) IN
    IF fa.fault THEN [uf |-> fa.uf, fault |-> TRUE, ret |-> FALSE]
    ELSE LET fb == find(fa.uf, y) IN
         IF fb.fault THEN [uf |-> fb.uf, fault |-> TRUE, ret |-> FALSE]
         ELSE [uf |-> link(fb.uf, fa.ret, fb.ret),
               fault |-> FALSE, ret |-> TRUE]

union(uf, x, y) ==
    LET fa == find(uf, x) IN
    IF fa.fault THEN [uf |-> fa.uf, fault |-> TRUE, ret |-> FALSE]
    ELSE LET fb == find(fa.uf, y) IN
         IF fb.fault THEN [uf |-> fb.uf, fault |-> TRUE, ret |-> FALSE]
         ELSE IF fa.ret = fb.ret
              THEN [uf |-> fb.uf, fault |-> FALSE, ret |-> FALSE]
              ELSE [uf |-> link(fb.uf, fa.ret, fb.ret),
                    fault |-> FALSE, ret |-> TRUE]

in_same_set_parents(uf, x, y) ==
    LET pa == parent(uf, x) IN
    IF pa.fault THEN [uf |-> uf, fault |-> TRUE, ret |-> FALSE]
    ELSE LET pb == parent(uf, y) IN
         IF pb.fault THEN [uf |-> uf, fault |-> TRUE, ret |-> FALSE]
         ELSE [uf |-> uf, fault |-> FALSE, ret |-> (pa.ret = pb.ret)]

in_same_set(uf, x, y) ==
    LET fa == find(uf, x) IN
    IF fa.fault THEN [uf |-> fa.uf, fault |-> TRUE, ret |-> FALSE]
    ELSE LET fb == find(fa.uf, y) IN
         IF fb.fault THEN [uf |-> fb.uf, fault |-> TRUE, ret |-> FALSE]
         ELSE [uf |-> fb.uf, fault |-> FALSE, ret |-> (fa.ret = fb.ret)]

----------------------------------------------------------------------------
(* The reference partition *)

BlockOf(bs, x) == CHOOSE s \in bs : x \in s

SameBlock(bs, x, y) == \E s \in bs : x \in s /\ y \in s

Merge(bs, x, y) ==
    IF SameBlock(bs, x, y) THEN bs
    ELSE (bs \ {BlockOf(bs, x), BlockOf(bs, y)})
             \cup {BlockOf(bs, x) \cup BlockOf(bs, y)}

Singletons(S) == {{i} : i \in S}

----------------------------------------------------------------------------
(* The state machine: one action per call a caller makes *)

self == [parents |-> parents, ranks |-> ranks]

\* Element ids a caller passes: every id in range and the first one out of
\* range.
ArgIds == 0 .. len(self)

Snapshot == [parents |-> parents, ranks |-> ranks, blocks |-> blocks]

RankVecs == UNION {[0 .. n - 1 -> RankSeeds] : n \in 0 .. MaxLen}

InitWithSize(cap) ==
    \E size \in 0 .. cap :
        /\ parents = with_size(size).parents
        /\ ranks = with_size(size).ranks
        /\ op = "with_size"
        /\ a = size
        /\ argRanks = Empty
        /\ ctor = "with_size"
        /\ blocks = Singletons(0 .. size - 1)

InitWithRanks ==
    \E rs \in RankVecs :
        /\ parents = with_ranks(rs).parents
        /\ ranks = with_ranks(rs).ranks
        /\ op = "with_ranks"
        /\ a = 0
        /\ argRanks = rs
        /\ ctor = "with_ranks"
        /\ blocks = Singletons(DOMAIN rs)

InitRest ==
    /\ b = 0
    /\ outcome = "ok"
    /\ retId = 0
    /\ retBool = FALSE
    /\ pre = [parents |-> Empty, ranks |-> Empty, blocks |-> {}]
    /\ nset = 0
    /\ merged = 0

Init == (InitWithSize(MaxLen) \/ InitWithRanks) /\ InitRest

\* What every call records about itself.
Call(name, x, y, res, id, bool) ==
    /\ op' = name
    /\ a' = x
    /\ b' = y
    /\ argRanks' = Empty
    /\ outcome' = IF res.fault THEN "fault" ELSE "ok"
    /\ retId' = id
    /\ retBool' = bool
    /\ pre' = Snapshot
    /\ merged' = IF name = "union" /\ ~res.fault /\ bool
                  THEN merged + 1 ELSE merged
    /\ UNCHANGED ctor

Len ==
    /\ Call("len", 0, 0, [fault |-> FALSE], len(self), FALSE)
    /\ UNCHANGED <<parents, ranks, blocks, nset>>

IsEmpty ==
    /\ Call("is_empty", 0, 0, [fault |-> FALSE], 0, is_empty(self))
    /\ UNCHANGED <<parents, ranks, blocks, nset>>

Extend(size, cap) ==
    /\ len(self) + size <= cap
    /\ \E uf \in {extend(self, size)} :
        /\ parents' = uf.parents
        /\ ranks' = uf.ranks
        /\ blocks' = blocks \cup Singletons(len(self) .. len(self) + size - 1)
        /\ Call("extend", size, 0, [fault |-> FALSE], 0, FALSE)
    /\ UNCHANGED nset

Union(x, y) ==
    \E res \in {union(self, x, y)} :
    /\ parents' = res.uf.parents
    /\ ranks' = res.uf.ranks
    /\ blocks' = IF x \in DOMAIN parents /\ y \in DOMAIN parents
                 THEN Merge(blocks, x, y) ELSE blocks
    /\ Call("union", x, y, res, 0, res.ret)
    /\ UNCHANGED nset

Find(element) ==
    \E res \in {find(self, element)} :
    /\ parents' = res.uf.parents
    /\ ranks' = res.uf.ranks
    /\ Call("find", element, 0, res, res.ret, FALSE)
    /\ UNCHANGED <<blocks, nset>>

InSameSet(x, y) ==
    \E res \in {in_same_set(self, x, y)} :
    /\ parents' = res.uf.parents
    /\ ranks' = res.uf.ranks
    /\ Call("in_same_set", x, y, res, 0, res.ret)
    /\ UNCHANGED <<blocks, nset>>

Parent(element) ==
    \E res \in {parent(self, element)} :
    /\ Call("parent", element, 0, res, res.ret, FALSE)
    /\ UNCHANGED <<parents, ranks, blocks, nset>>

\* set_parent called from outside the structure.
SetParent(element, p) ==
    \E res \in {set_parent(self, element, p)} :
    /\ parents' = res.uf.parents
    /\ ranks' = res.uf.ranks
    /\ nset' = IF res.fault THEN nset ELSE nset + 1
    /\ Call("set_parent", element, p, res, 0, FALSE)
    /\ UNCHANGED blocks

IndexedCalls ==
    \/ \E x, y \in ArgIds : Union(x, y)
    \/ \E element \in ArgIds : Find(element)
    \/ \E x, y \in ArgIds : InSameSet(x, y)
    \/ \E element \in ArgIds : Parent(element)
    \/ \E element \in ArgIds \ DOMAIN parents, p \in ArgIds :
           SetParent(element, p)

\* The calls of a caller that never rewrites a parent pointer itself: a
\* set_parent call is made only with an element that is out of range.
Next ==
    \/ Len
    \/ IsEmpty
    \/ \E size \in 0 .. MaxLen : Extend(size, MaxLen)
    \/ IndexedCalls

Spec == Init /\ [][Next]_vars

\* The same caller, who may also rewrite parent pointers with set_parent.
SetParentInRange ==
    /\ nset < MaxSetParent
    /\ \E element \in DOMAIN parents, p \in ArgIds : SetParent(element, p)

InitRaw == InitWithSize(MaxLenRaw) /\ InitRest

NextRaw ==
    \/ Len
    \/ IsEmpty
    \/ \E size \in 0 .. MaxLenRaw : Extend(size, MaxLenRaw)
    \/ IndexedCalls
    \/ SetParentInRange

SpecRaw == InitRaw /\ [][NextRaw]_vars

----------------------------------------------------------------------------
(* Notions the properties are stated in *)

\* The element k parent steps above i, read without rewriting anything.
RECURSIVE Ancestor(_, _, _)
Ancestor(ps, i, k) == IF k = 0 THEN i ELSE Ancestor(ps, ps[i], k - 1)

\* In a forest of n elements n steps end on the root of i's tree.
RootOf(ps, i) == Ancestor(ps, i, VecLen(ps))

Roots(ps) == {i \in DOMAIN ps : ps[i] = i}

Forest(ps) ==
    /\ \A i \in DOMAIN ps : ps[i] \in DOMAIN ps
    /\ \A i \in DOMAIN ps : RootOf(ps, i) \in Roots(ps)

Ids == DOMAIN parents

PreIds == DOMAIN pre.parents

PreSelf == [parents |-> pre.parents, ranks |-> pre.ranks]

\* The last call was name(a, b) with both ids in range.
Called2(name) == op = name /\ a \in PreIds /\ b \in PreIds

PreRootA == RootOf(pre.parents, a)

PreRootB == RootOf(pre.parents, b)

----------------------------------------------------------------------------
(* Properties *)

\* C1: side by side with a reference partition that starts as singletons
\* and merges two blocks per union, union(a, b) on valid ids returns true
\* exactly when a and b were in different blocks, in_same_set(a, b) returns
\* true exactly when they are in one block, and in every state
\* find(x) == find(y) exactly when x and y are in one block.
C1_RefinesPartition ==
    /\ Called2("union") =>
           outcome = "ok" /\ retBool = ~SameBlock(pre.blocks, a, b)
    /\ Called2("in_same_set") =>
           outcome = "ok" /\ retBool = SameBlock(pre.blocks, a, b)
    /\ \A x, y \in Ids :
           \A fx \in {find(self, x)} :
               \A fy \in {find(fx.uf, y)} :
                   /\ ~fx.fault /\ ~fy.fault
                   /\ (fx.ret = fy.ret) <=> SameBlock(blocks, x, y)

C1_Witness ==
    /\ Called2("in_same_set") /\ a # b /\ retBool
    /\ Cardinality(blocks) >= 2

\* C2: forest invariant: every parent pointer is in range and the parent
\* chain of every element ends on an element that is its own parent.
C2_Forest == Forest(parents)

C2_Witness ==
    /\ op = "union" /\ retBool
    /\ \E i \in Ids : parents[i] # i /\ parents[parents[i]] # parents[i]

\* C3: find(e) on a valid e returns the root of e's tree as it was before
\* the call, and that element is its own parent after the call.
C3_FindReturnsRoot ==
    (op = "find" /\ a \in PreIds) =>
        /\ outcome = "ok"
        /\ retId = RootOf(pre.parents, a)
        /\ parents[retId] = retId

C3_Witness ==
    /\ op = "find" /\ a \in PreIds /\ outcome = "ok"
    /\ pre.parents[a] # a
    /\ pre.parents[pre.parents[a]] # pre.parents[a]

\* C4: union(a, b) on two elements of one set returns false and changes no
\* element's root, no root and no rank; and union(a, b) called again right
\* after a union(a, b) returns false with the same frame.
C4_UnionSameSet ==
    /\ (Called2("union") /\ PreRootA = PreRootB) =>
           /\ outcome = "ok" /\ retBool = FALSE
           /\ \A i \in Ids : RootOf(parents, i) = RootOf(pre.parents, i)
           /\ Roots(parents) = Roots(pre.parents)
           /\ ranks = pre.ranks
    /\ Called2("union") =>
           LET again == union(self, a, b) IN
           /\ ~again.fault /\ again.ret = FALSE
           /\ \A i \in Ids :
                  RootOf(again.uf.parents, i) = RootOf(parents, i)
           /\ Roots(again.uf.parents) = Roots(parents)
           /\ again.uf.ranks = ranks

C4_Witness ==
    /\ Called2("union") /\ a # b /\ PreRootA = PreRootB
    /\ retBool = FALSE
    /\ parents # pre.parents

\* C5: when union(a, b) finds two different roots of different rank, the
\* root of smaller rank gets the root of greater rank as its parent, the
\* greater one stays a root, no rank changes and the call returns true,
\* whichever argument supplies the smaller root.
C5_UnionByRank ==
    (Called2("union") /\ PreRootA # PreRootB
        /\ pre.ranks[PreRootA] # pre.ranks[PreRootB]) =>
        LET lo == IF pre.ranks[PreRootA] < pre.ranks[PreRootB]
                  THEN PreRootA ELSE PreRootB
            hi == IF pre.ranks[PreRootA] < pre.ranks[PreRootB]
                  THEN PreRootB ELSE PreRootA
        IN  /\ outcome = "ok" /\ retBool = TRUE
            /\ parents[lo] = hi
            /\ parents[hi] = hi
            /\ ranks = pre.ranks

C5_Witness ==
    /\ Called2("union") /\ PreRootA # PreRootB
    /\ pre.ranks[PreRootA] > pre.ranks[PreRootB]
    /\ retBool = TRUE
    /\ parents[PreRootB] = PreRootA

\* C6: when union(a, b) finds two different roots of equal rank, the root of
\* a gets the root of b as its parent, the root of b stays a root, its rank
\* is its old value plus one, clamped at the largest usize, the rank of the
\* root of a is unchanged and the call returns true.
C6_TieBreak ==
    (Called2("union") /\ PreRootA # PreRootB
        /\ pre.ranks[PreRootA] = pre.ranks[PreRootB]) =>
        /\ outcome = "ok" /\ retBool = TRUE
        /\ parents[PreRootA] = PreRootB
        /\ parents[PreRootB] = PreRootB
        /\ ranks[PreRootB] = IF pre.ranks[PreRootB] = USIZE_MAX
                             THEN USIZE_MAX ELSE pre.ranks[PreRootB] + 1
        /\ ranks[PreRootA] = pre.ranks[PreRootA]

C6_Witness ==
    /\ Called2("union") /\ PreRootA # PreRootB
    /\ pre.ranks[PreRootA] = pre.ranks[PreRootB]
    /\ a # PreRootA
    /\ retBool = TRUE
    /\ parents[PreRootA] = PreRootB

\* C7: no call lowers a rank; a union changes at most one rank, by at most
\* one; and an equal-rank union whose surviving root has the largest usize
\* as its rank leaves that rank there, returns true and merges the two sets.
C7_RanksMonotoneSaturating ==
    /\ \A i \in PreIds : ranks[i] >= pre.ranks[i]
    /\ op = "union" =>
           /\ Cardinality({i \in PreIds : ranks[i] # pre.ranks[i]}) <= 1
           /\ \A i \in PreIds : ranks[i] - pre.ranks[i] <= 1
    /\ (Called2("union") /\ PreRootA # PreRootB
           /\ pre.ranks[PreRootA] = USIZE_MAX
           /\ pre.ranks[PreRootB] = USIZE_MAX) =>
           /\ ranks[PreRootB] = USIZE_MAX
           /\ outcome = "ok" /\ retBool = TRUE
           /\ RootOf(parents, a) = RootOf(parents, b)

C7_Witness ==
    /\ Called2("union") /\ PreRootA # PreRootB
    /\ pre.ranks[PreRootA] = USIZE_MAX
    /\ pre.ranks[PreRootB] = USIZE_MAX
    /\ ranks[PreRootB] = USIZE_MAX
    /\ retBool = TRUE

\* C8: extend(k) raises len() by k, makes every new id its own root of rank
\* 0 and leaves the parent and the rank of every older element as they
\* were, so find and in_same_set answer as before on the older elements;
\* extend(0) changes nothing.
C8_ExtendFrame ==
    op = "extend" =>
        /\ len(self) = len(PreSelf) + a
        /\ VecLen(ranks) = VecLen(pre.ranks) + a
        /\ \A i \in Ids \ PreIds : parents[i] = i /\ ranks[i] = 0
        /\ \A i \in PreIds :
               parents[i] = pre.parents[i] /\ ranks[i] = pre.ranks[i]
        /\ \A i \in PreIds : find(self, i).ret = find(PreSelf, i).ret
        /\ \A i, j \in PreIds :
               in_same_set(self, i, j).ret = in_same_set(PreSelf, i, j).ret
        /\ a = 0 => parents = pre.parents /\ ranks = pre.ranks

C8_Witness ==
    /\ op = "extend" /\ a >= 1
    /\ \E i \in PreIds : pre.parents[i] # i
    /\ len(self) = len(PreSelf) + a

C10_FaultInAnyPosition ==
    /\ (op \in {"find", "parent"} /\ a \notin PreIds) => outcome = "fault"
    /\ (op \in {"union", "in_same_set", "set_parent"}
           /\ (a \notin PreIds \/ b \notin PreIds)) => outcome = "fault"

\* C10, amended: find, union, in_same_set and parent fault when an id out of
\* range is passed in any argument position, and set_parent faults when its
\* element is out of range; set_parent with an element in range returns and
\* stores the parent it is given, in range or not.
C10_FaultOnIndexedPosition ==
    /\ (op \in {"find", "parent", "set_parent"} /\ a \notin PreIds) =>
           outcome = "fault"
    /\ (op \in {"union", "in_same_set"}
           /\ (a \notin PreIds \/ b \notin PreIds)) => outcome = "fault"
    /\ (op = "set_parent" /\ a \in PreIds) =>
           outcome = "ok" /\ parents[a] = b

C10_Witness ==
    /\ op = "union" /\ a \in PreIds /\ b \notin PreIds
    /\ outcome = "fault"
    /\ nset > 0

----------------------------------------------------------------------------
(* Paths, depths and trees *)

\* The elements on the parent chain of i, i and its root included.
PathOf(ps, i) == {Ancestor(ps, i, k) : k \in 0 .. VecLen(ps)}

\* The number of parent edges between i and its root.
Depth(ps, i) == Cardinality({x \in PathOf(ps, i) : ps[x] # x})

TreeOf(ps, r) == {i \in DOMAIN ps : RootOf(ps, i) = r}

SetMax(S) == CHOOSE m \in S : \A k \in S : k <= m

\* The longest chain of parent edges below the root r.
Height(ps, r) == SetMax({Depth(ps, i) : i \in TreeOf(ps, r)})

RECURSIVE Pow2(_)
Pow2(k) == IF k = 0 THEN 1 ELSE 2 * Pow2(k - 1)

\* C11: in_same_set answers as an equivalence relation although it rewrites
\* parent pointers: in_same_set(e, e) is true; in_same_set(b, a) right after
\* in_same_set(a, b) returns the same value; and once union(a, b) and
\* union(b, c) have both returned true (in either order, from then on a, b
\* and c share a reference block), in_same_set(a, c) is true.  Every state
\* is the state before each of these calls, so the parts about one call are
\* stated on the call just made.
C11_Equivalence ==
    /\ (Called2("in_same_set") /\ a = b) => outcome = "ok" /\ retBool = TRUE
    /\ Called2("in_same_set") =>
           \A r2 \in {in_same_set(self, b, a)} :
               ~r2.fault /\ r2.ret = retBool
    /\ (Called2("union") /\ retBool = TRUE) =>
           /\ SameBlock(blocks, a, b)
           /\ \A c \in Ids :
                  \A second \in {union(self, b, c)} :
                      second.ret = TRUE =>
                          in_same_set(second.uf, a, c).ret = TRUE
           /\ \A c \in Ids :
                  \A second \in {union(self, c, a)} :
                      second.ret = TRUE =>
                          in_same_set(second.uf, c, b).ret = TRUE
    /\ \A x, y \in PreIds :
           SameBlock(pre.blocks, x, y) => SameBlock(blocks, x, y)
    /\ (Called2("in_same_set")
           /\ \E y \in PreIds : /\ SameBlock(pre.blocks, a, y)
                                /\ SameBlock(pre.blocks, y, b)) =>
           retBool = TRUE

C11_Witness ==
    /\ Called2("union") /\ retBool = TRUE
    /\ \E x \in Ids \ {a, b} :
           /\ SameBlock(pre.blocks, x, a)
           /\ ~SameBlock(pre.blocks, x, b)
           /\ in_same_set(self, x, b).ret = TRUE
           /\ in_same_set(self, x, b).uf.parents # parents

\* C12: find and in_same_set change nothing but parent pointers of elements
\* that are not roots and lie on the walked paths: every rank, len(), the
\* set of roots and the root of every element are as before the call.
C12_FindFrame ==
    ((op = "find" /\ a \in PreIds) \/ Called2("in_same_set")) =>
        /\ outcome = "ok"
        /\ ranks = pre.ranks
        /\ len(self) = len(PreSelf) /\ Ids = PreIds
        /\ Roots(parents) = Roots(pre.parents)
        /\ \A i \in Ids : RootOf(parents, i) = RootOf(pre.parents, i)
        /\ \A i \in Ids :
               parents[i] # pre.parents[i] =>
                   /\ pre.parents[i] # i
                   /\ \/ i \in PathOf(pre.parents, a)
                      \/ op = "in_same_set" /\ i \in PathOf(pre.parents, b)

C12_Witness ==
    /\ Called2("in_same_set")
    /\ parents # pre.parents
    /\ ranks = pre.ranks
    /\ \E i \in Ids : ranks[i] # 0

\* C13: the parent vector and the rank vector have the same length in every
\* state, len() returns it, and is_empty() is true exactly when it is 0.
C13_Lengths ==
    /\ DOMAIN parents = DOMAIN ranks
    /\ VecLen(parents) = VecLen(ranks)
    /\ len(self) = VecLen(ranks)
    /\ is_empty(self) <=> (len(self) = 0)
    /\ op = "len" => retId = VecLen(parents) /\ retId = VecLen(ranks)
    /\ op = "is_empty" => (retBool <=> VecLen(parents) = 0)

C13_Witness ==
    /\ op = "len" /\ retId >= 2
    /\ VecLen(ranks) = retId
    /\ \E i \in Ids : parents[i] # i

\* C14: after find(e) every element on the path e walked has as its parent
\* what was the parent of its parent before the call (its old parent when
\* that was the root), every other parent pointer is unchanged, and no
\* element is deeper than it was.
C14_PathHalving ==
    (op = "find" /\ a \in PreIds) =>
        /\ \A x \in PathOf(pre.parents, a) :
               parents[x] = pre.parents[pre.parents[x]]
        /\ \A x \in PathOf(pre.parents, a) :
               pre.parents[pre.parents[x]] = pre.parents[x] =>
                   parents[x] = pre.parents[x]
        /\ \A x \in Ids \ PathOf(pre.parents, a) :
               parents[x] = pre.parents[x]
        /\ \A i \in Ids : Depth(parents, i) <= Depth(pre.parents, i)

C14_Witness ==
    /\ op = "find" /\ a \in PreIds
    /\ Depth(pre.parents, a) >= 2
    /\ parents[a] # pre.parents[a]
    /\ parents[a] = pre.parents[pre.parents[a]]
    /\ Depth(parents, a) < Depth(pre.parents, a)

\* C15: find(e) on a valid e ends after at most as many loop iterations as
\* there are parent edges between e and its root, in every state and so in
\* the state each call starts from; union and in_same_set on valid ids run
\* to their return.
C15_FindTerminates ==
    /\ \A e \in Ids :
           \A r \in {find(self, e)} :
               ~r.fault /\ r.iters <= Depth(parents, e)
    /\ (op = "find" /\ a \in PreIds) =>
           /\ outcome = "ok"
           /\ find(PreSelf, a).iters <= Depth(pre.parents, a)
    /\ (Called2("union") \/ Called2("in_same_set")) => outcome = "ok"

C15_Witness ==
    /\ op = "find" /\ a \in PreIds /\ outcome = "ok"
    /\ Depth(pre.parents, a) = 2
    /\ find(PreSelf, a).iters = 2

\* C16: the rank of every root is at least the height of its tree.
C16_RankBoundsHeight ==
    \A r \in Roots(parents) : ranks[r] >= Height(parents, r)

C16_Witness ==
    \E r \in Roots(parents) :
        /\ Height(parents, r) = 1
        /\ ranks[r] = 1
        /\ ctor = "with_ranks"

NumRoots(ps) == Cardinality(Roots(ps))

\* C17: a union that returns true overwrites the parent pointer of one
\* element that is a root when the two finds are done, so there is one root
\* fewer; a union that returns false, find and in_same_set keep the number
\* of roots, extend(k) adds k; so the number of roots is len() minus the
\* number of unions that returned true.
C17_RootCount ==
    /\ (Called2("union") /\ retBool = TRUE) =>
           \E x \in {PreRootA, PreRootB} :
               /\ x \in Roots(pre.parents)
               /\ parents[x] \in {PreRootA, PreRootB} \ {x}
               /\ Roots(parents) = Roots(pre.parents) \ {x}
               /\ NumRoots(parents) = NumRoots(pre.parents) - 1
    /\ ((op = "union" /\ retBool = FALSE) \/ op \in {"find", "in_same_set"})
           => NumRoots(parents) = NumRoots(pre.parents)
    /\ op = "extend" => NumRoots(parents) = NumRoots(pre.parents) + a
    /\ NumRoots(parents) = len(self) - merged

C17_Witness ==
    /\ Called2("union") /\ retBool = TRUE
    /\ merged = 2
    /\ NumRoots(parents) = 1
    /\ NumRoots(pre.parents) = 2

\* C18: every element that is not a root has a rank below the rank of its
\* parent, or its parent has the largest usize as its rank; so ranks never
\* decrease along a parent chain, also after find repoints an element.
C18_RanksAlongChains ==
    \A i \in Ids :
        parents[i] # i =>
            /\ ranks[i] < ranks[parents[i]] \/ ranks[parents[i]] = USIZE_MAX
            /\ ranks[i] <= ranks[parents[i]]

C18_Witness ==
    /\ op = "find" /\ a \in PreIds
    /\ parents[a] # pre.parents[a]
    /\ ranks[a] = USIZE_MAX
    /\ ranks[parents[a]] = USIZE_MAX

\* C19: in a structure built by with_size, the tree of every root r holds at
\* least 2^rank[r] elements, so 2^rank[r] and 2^height are at most len().
C19_RankLogBound ==
    ctor = "with_size" =>
        \A r \in Roots(parents) :
            /\ Cardinality(TreeOf(parents, r)) >= Pow2(ranks[r])
            /\ Pow2(ranks[r]) <= len(self)
            /\ Pow2(Height(parents, r)) <= len(self)

C19_Witness ==
    /\ ctor = "with_size"
    /\ \E r \in Roots(parents) :
           /\ ranks[r] = 1
           /\ Cardinality(TreeOf(parents, r)) = 2
    /\ len(self) = 3

\* C20: a call that faults changes neither the partition nor the ranks:
\* after a faulting find, parent or set_parent nothing has changed; after a
\* faulting union or in_same_set only pointers on a's path may have been
\* rewritten, as find(a) rewrites them; roots, ranks and len() are as
\* before and the parents are still a forest.
C20_FaultFrame ==
    outcome = "fault" =>
        /\ ranks = pre.ranks
        /\ Ids = PreIds /\ len(self) = len(PreSelf)
        /\ Forest(parents)
        /\ Roots(parents) = Roots(pre.parents)
        /\ NumRoots(parents) = NumRoots(pre.parents)
        /\ \A i \in Ids : RootOf(parents, i) = RootOf(pre.parents, i)
        /\ op \in {"find", "parent", "set_parent"} => parents = pre.parents
        /\ (op \in {"union", "in_same_set"} /\ a \notin PreIds) =>
               parents = pre.parents
        /\ (op \in {"union", "in_same_set"} /\ a \in PreIds) =>
               /\ b \notin PreIds
               /\ \A i \in Ids :
                      parents[i] # pre.parents[i] =>
                          i \in PathOf(pre.parents, a)
               /\ \A i \in PathOf(pre.parents, a) :
                      parents[i] = pre.parents[pre.parents[i]]

C20_Witness ==
    /\ op = "union" /\ a \in PreIds /\ b \notin PreIds
    /\ outcome = "fault"
    /\ parents # pre.parents

============================================================================
